---- MODULE Spec2Model ----
(***************************************************************************)
(* gym-mtsim: the trading environment MtEnv (gym_mtsim/envs/mt_env.py).    *)
(*                                                                         *)
(* Units.  Money, prices and volumes are integers.  An action component x  *)
(* in [-1, 1] is carried as the integer 100 * x, so that the raw volume    *)
(* symbol_action[-1] * 100 is the carried integer itself.  Probabilities   *)
(* are carried in permille.                                                *)
(***************************************************************************)
EXTENDS Integers, Sequences, FiniteSets, TLC

VARIABLES
    cfg,                 \* constructor arguments kept as attributes (never assigned after __init__)
    original_simulator,  \* self.original_simulator
    np_rng,              \* self.np_rng: [seed, pos] = which stream, how many draws consumed
    simulator,           \* self.simulator (the episode's deep copy)
    initial_balance,     \* self.initial_balance
    start_tick,          \* self._start_tick
    end_tick,            \* self._end_tick
    current_tick,        \* self._current_tick
    truncated,           \* self._truncated
    history,             \* self.history
    prices,              \* self.prices: per instrument the rows looked up for the time points
    pool,                \* the worker pool's map call in progress in _get_prices
    ret,                 \* what the last reset/step call returned (or how far it got)
    pc                   \* "init" (__init__ called) | "failed" (__init__ raised) |
                         \* "get_prices" (__init__ is building the price cache) | "constructed" |
                         \* "ok" (last call returned) | "raised" (last call raised)

vars == <<cfg, original_simulator, np_rng, simulator, initial_balance, start_tick,
          end_tick, current_tick, truncated, history, prices, pool, ret, pc>>

-----------------------------------------------------------------------------
(* Bounds of the model *)

\* len(self.time_points)
NumTimePoints == 5
\* draws one generator stream may serve before the model stops drawing from it
MaxDraws == 8

\* the instruments the simulator knows, by number
Symbols == {1, 2}

\* values a close or hold component takes: 100 * x for the boundary values x = -1, 1
LogitValues == {-100, 100}

\* seeds a caller passes to reset; <<>> is seed=None
ResetSeeds == {<<>>, <<1>>, <<2>>}
\* the seed argument of __init__ (default 42), carried as stream 0
ConstructorSeed == 0

Min(a, b) == IF a < b THEN a ELSE b
Max(a, b) == IF a > b THEN a ELSE b
Abs(a) == IF a < 0 THEN -a ELSE a

-----------------------------------------------------------------------------
(* numpy Generator: a stream is a fixed function of (seed, position) *)

\* raw values in 1..4, eight per seed: the stream of seed s starts at 8 * s and
\* runs on cyclically.  Seed 1 starts with middle values only, which leave
\* every choice to the probabilities; seeds 0 and 2 mix in the extremes.
StreamTable == <<2, 1, 3, 4, 2, 3, 1, 3,
                 2, 3, 3, 2, 2, 3, 2, 3,
                 4, 3, 2, 1, 3, 2, 4, 2>>

\* np.random.default_rng(seed)
DefaultRng(seed) == [seed |-> seed, pos |-> 0]

\* the raw value the generator yields at its current position, in 1..4
RawDraw(rng) == StreamTable[((8 * rng.seed + rng.pos) % Len(StreamTable)) + 1]

\* the generator after n draws
Advance(rng, n) == [rng EXCEPT !.pos = @ + n]

\* a uniform variate in [0, 1), in permille
UniformLevels == <<10, 300, 700, 990>>
Uniform(rng) == UniformLevels[RawDraw(rng)]

\* rng.choice([False, True], p=[1 - p, p]): False iff u < 1 - p
Choice(rng, p) == Uniform(rng) >= 1000 - p

\* rng.integers(low, high), high exclusive; defined for low < high
Integers_(rng, low, high) == low + ((RawDraw(rng) - 1) % (high - low))

\* rng.lognormal(mu, sigma) for the default target moments (mean 10000, stddev 1000), scaled
LogNormalLevels == <<6, 10, 14, 20>>
LogNormal(rng) == LogNormalLevels[RawDraw(rng)]

-----------------------------------------------------------------------------
(* ActionDecoder *)

\* expit(arctanh(clip(x, -1 + 1e-3, 1 - 1e-3))) in permille, for x = a / 100:
\*   x = -1 -> 0.0219, x = 0 -> 0.5, x = 1 -> 0.9781 (other x are not tried)
Probability(a) == IF a <= -100 THEN 22 ELSE IF a >= 100 THEN 978 ELSE 500

\* Python round(): to the nearest integer, ties to even; n >= 0, d > 0
RoundHalfEven(n, d) ==
    LET q == n \div d
        r == n % d
    IN  IF 2 * r < d THEN q
        ELSE IF 2 * r > d THEN q + 1
        ELSE IF q % 2 = 0 THEN q ELSE q + 1

\* np.clip(v, lo, hi) = minimum(maximum(v, lo), hi)
Clip(v, lo, hi) == Min(Max(v, lo), hi)

\* MtEnv._get_modified_volume
GetModifiedVolume(si, volume) ==
    LET v == Clip(Abs(volume), si.volume_min, si.volume_max)
    IN  RoundHalfEven(v, si.volume_step) * si.volume_step

-----------------------------------------------------------------------------
(* The position/margin simulator (gym_mtsim/simulator), through the interface
   the environment consumes: symbol_orders, create_order, close_order, tick,
   balance, equity, margin, free_margin, symbols_info, hedge. *)

\* close prices per instrument along the time axis, repeated beyond its end
PriceTable == << <<10, 14, 8, 13, 12, 10>>, <<5, 5, 6, 4, 5, 6>> >>
\* price_at(symbol, time)['Close']
Price(symbol, time) == PriceTable[symbol][(time % Len(PriceTable[symbol])) + 1]

\* price_at(symbol, time)[['Close', 'Open']]: the open price is not modelled
\* apart from the close price
PriceAt(symbol, time) == <<Price(symbol, time), Price(symbol, time)>>

\* margin reserved per unit of volume
MarginRate == 3

\* +1 for Buy, -1 for Sell
Sign(type) == IF type = "Buy" THEN 1 ELSE -1

\* unrealized profit of an order at a price: volume * (sign * (exit - entry) - fee)
OrderProfit(order, price) ==
    order.volume * (Sign(order.type) * (price - order.entry_price) - order.fee)

RECURSIVE SumProfit(_)
SumProfit(orders) ==
    IF orders = <<>> THEN 0 ELSE Head(orders).profit + SumProfit(Tail(orders))

\* simulator.free_margin
FreeMargin(sim) == sim.equity - sim.margin

\* simulator.symbol_orders(symbol): the open orders of the instrument, oldest first
SymbolOrders(sim, symbol) == SelectSeq(sim.orders, LAMBDA o : o.symbol = symbol)

\* simulator.close_order(order): realizes the profit, frees the margin, drops the order
CloseOrder(sim, order) ==
    [sim EXCEPT !.balance = @ + order.profit,
                !.margin = @ - order.margin,
                !.closed = @ + 1,
                !.orders = SelectSeq(@, LAMBDA o : o.id # order.id)]

\* the volume checks of create_order
VolumeValid(si, volume) ==
    /\ si.volume_min <= volume
    /\ volume <= si.volume_max
    /\ volume % si.volume_step = 0

\* a new order at a price: no price move yet, so its profit is -volume * fee
NewOrder(id, type, symbol, volume, fee, price) ==
    [id |-> id, symbol |-> symbol, type |-> type, volume |-> volume, fee |-> fee,
     entry_price |-> price, profit |-> volume * (0 - fee), margin |-> volume * MarginRate]

\* the order is added unless its margin exceeds the free margin ("low free margin")
PlaceOrder(sim, order) ==
    IF order.margin > FreeMargin(sim) + order.profit
    THEN [ok |-> FALSE, error |-> "low free margin", sim |-> sim, order |-> order]
    ELSE [ok |-> TRUE, error |-> "", order |-> order,
          sim |-> [sim EXCEPT !.equity = @ + order.profit,
                              !.margin = @ + order.margin,
                              !.orders = Append(@, order)]]

\* a new order at the current time and price
CreateHedgedOrder(sim, type, symbol, volume, fee) ==
    PlaceOrder(sim, NewOrder(sim.closed + Len(sim.orders) + 1, type, symbol, volume, fee,
                             Price(symbol, sim.current_time)))

\* the open orders with the order of that id replaced
ReplaceOrder(orders, id, new) ==
    [k \in 1..Len(orders) |-> IF orders[k].id = id THEN new ELSE orders[k]]

\* the net position enlarged by an accepted order in the same direction; it
\* stays the same order
MergedOrder(old, new) ==
    [old EXCEPT !.volume = old.volume + new.volume,
                !.entry_price = (old.entry_price * old.volume + new.entry_price * new.volume)
                                \div (old.volume + new.volume),
                !.profit = @ + new.profit,
                !.margin = @ + new.margin]

MergeOrder(sim, old, made) ==
    IF ~made.ok THEN made
    ELSE [ok |-> TRUE, error |-> "", order |-> MergedOrder(old, made.order),
          sim |-> [made.sim EXCEPT
                     !.orders = ReplaceOrder(sim.orders, old.id, MergedOrder(old, made.order))]]

\* the net position reduced by a smaller order in the opposite direction
ReducedOrder(old, volume) ==
    [old EXCEPT !.volume = @ - volume,
                !.profit = @ - (old.profit * volume) \div old.volume,
                !.margin = @ - (old.margin * volume) \div old.volume]

ReduceOrder(sim, old, volume) ==
    [ok |-> TRUE, error |-> "", order |-> ReducedOrder(old, volume),
     sim |-> [sim EXCEPT !.balance = @ + (old.profit * volume) \div old.volume,
                         !.margin = @ - (old.margin * volume) \div old.volume,
                         !.orders = ReplaceOrder(@, old.id, ReducedOrder(old, volume))]]

\* without hedging an instrument holds one net position: a request in the same
\* direction enlarges it, one in the opposite direction reduces, closes or reverses it
NetOrder(sim, old, type, symbol, volume, fee) ==
    IF old.type = type
    THEN MergeOrder(sim, old, CreateHedgedOrder(sim, type, symbol, volume, fee))
    ELSE IF volume > old.volume
    THEN CreateHedgedOrder(CloseOrder(sim, old), type, symbol, volume - old.volume, fee)
    ELSE IF volume = old.volume
    THEN [ok |-> TRUE, error |-> "", order |-> old, sim |-> CloseOrder(sim, old)]
    ELSE ReduceOrder(sim, old, volume)

CreateUnhedgedOrder(sim, type, symbol, volume, fee) ==
    IF SymbolOrders(sim, symbol) = <<>>
    THEN CreateHedgedOrder(sim, type, symbol, volume, fee)
    ELSE NetOrder(sim, SymbolOrders(sim, symbol)[1], type, symbol, volume, fee)

\* simulator.create_order(order_type, symbol, volume, fee): the new order, or a
\* ValueError (ok = FALSE, with its message)
CreateOrder(sim, type, symbol, volume, fee) ==
    IF ~VolumeValid(sim.symbols_info[symbol], volume)
    THEN [ok |-> FALSE, error |-> "incorrect volume", sim |-> sim,
          order |-> [id |-> 0]]
    ELSE IF sim.hedge THEN CreateHedgedOrder(sim, type, symbol, volume, fee)
    ELSE CreateUnhedgedOrder(sim, type, symbol, volume, fee)

\* simulator.tick(delta_time): advances the time, reprices the open orders,
\* equity = balance + unrealized profit
Repriced(orders, time) ==
    [k \in 1..Len(orders) |->
        [orders[k] EXCEPT !.profit = OrderProfit(orders[k], Price(orders[k].symbol, time))]]

Ticked(sim, time, orders) ==
    [sim EXCEPT !.current_time = time, !.orders = orders,
                !.equity = sim.balance + SumProfit(orders)]

Tick(sim, dt) == Ticked(sim, sim.current_time + dt, Repriced(sim.orders, sim.current_time + dt))

-----------------------------------------------------------------------------
(* MtEnv._apply_action *)

\* k = self.symbol_max_orders + 2 components per instrument:
\* [close_1 .. close_N, hold, volume]
SymbolAction(action, i, max_orders) ==
    [k \in 1..(max_orders + 2) |-> action[(max_orders + 2) * (i - 1) + k]]

\* the [hold, volume] pairs tried: hold, sell the most, sell the least, buy the most
HoldVolumes == {<<100, 0>>, <<-100, -100>>, <<-100, 0>>, <<-100, 100>>}

\* the segments of one instrument tried: any close components, then a pair
SymbolActions(max_orders) ==
    {closes \o hv : closes \in [1..max_orders -> LogitValues], hv \in HoldVolumes}

RECURSIVE Segments(_, _)
Segments(n, max_orders) ==
    IF n = 0 THEN {<<>>}
    ELSE {x \o y : x \in SymbolActions(max_orders), y \in Segments(n - 1, max_orders)}

\* the action vectors tried, out of the action space
\* Box(-1, 1, shape = (len(trading_symbols) * (symbol_max_orders + 2),)):
\* one segment per instrument, and the all-zero vector
ActionSpace(c) ==
    Segments(Len(c.trading_symbols), c.symbol_max_orders)
    \cup {[k \in 1..(Len(c.trading_symbols) * (c.symbol_max_orders + 2)) |-> 0]}

\* closes[j] for the orders the close probabilities cover: one draw per order,
\* after the hold draw
CloseDraws(rng, symbol_action, n_orders, max_orders) ==
    [j \in 1..Min(n_orders, max_orders) |->
        Choice(Advance(rng, j - 1), Probability(symbol_action[j]))]

RECURSIVE PickFrom(_, _, _)
PickFrom(symbol_orders, closes, j) ==
    IF j > Len(closes) THEN <<>>
    ELSE (IF closes[j] THEN <<symbol_orders[j]>> ELSE <<>>)
         \o PickFrom(symbol_orders, closes, j + 1)

\* np.array(symbol_orders)[np.where(closes)[0]]
OrdersToClose(symbol_orders, closes) == PickFrom(symbol_orders, closes, 1)

\* the loop of simulator.close_order calls
RECURSIVE CloseAll(_, _)
CloseAll(sim, orders) ==
    IF orders = <<>> THEN sim ELSE CloseAll(CloseOrder(sim, Head(orders)), Tail(orders))

\* orders_capacity with the close draws counted in place of the closed orders
OrdersCapacityOfDraws(max_orders, n_orders, n_closed) ==
    max_orders - (n_orders - Min(n_orders, max_orders))

\* orders_capacity
OrdersCapacity(max_orders, n_orders, n_closed) == max_orders - (n_orders - n_closed)

\* the capacity error one slot too late
CapacityErrorBelowZero(sim, orders_capacity) == sim.hedge /\ orders_capacity < 0

\* the condition under which "cannot add more orders" is recorded
CapacityError(sim, orders_capacity) == sim.hedge /\ orders_capacity = 0

\* a direction that takes a zero volume for a buy
OrderTypeOfNonNegative(volume) == IF volume >= 0 THEN "Buy" ELSE "Sell"

\* OrderType.Buy if volume > 0. else OrderType.Sell
OrderTypeOf(volume) == IF volume > 0 THEN "Buy" ELSE "Sell"

\* a ValueError swallowed without a record of it
AnsweredSilently(base, order_type, fee, made) ==
    IF made.ok
    THEN [sim |-> made.sim, request |-> "accepted",
          info |-> [base EXCEPT !.order_id = made.order.id, !.order_type = order_type,
                                !.fee = fee, !.margin = made.order.margin]]
    ELSE [sim |-> made.sim, request |-> "rejected", info |-> base]

\* what create_order answered, written into the intent record
Answered(base, order_type, fee, made) ==
    IF made.ok
    THEN [sim |-> made.sim, request |-> "accepted",
          info |-> [base EXCEPT !.order_id = made.order.id, !.order_type = order_type,
                                !.fee = fee, !.margin = made.order.margin]]
    ELSE [sim |-> made.sim, request |-> "rejected",
          info |-> [base EXCEPT !.error = made.error]]

\* the intent record after the open decision, and the simulator after it
OpenDecision(sim, base, symbol, fee) ==
    IF CapacityError(sim, base.capacity)
    THEN [sim |-> sim, info |-> [base EXCEPT !.error = "cannot add more orders"],
          request |-> "none"]
    ELSE IF ~base.hold
    THEN Answered(base, OrderTypeOf(base.volume), fee,
                  CreateOrder(sim, OrderTypeOf(base.volume), symbol, base.modified_volume, fee))
    ELSE [sim |-> sim, info |-> base, request |-> "none"]

\* orders_info[symbol] before the open decision; order_id 0 is None, fee and
\* margin -1 are nan, order_type "None" is None
IntentRecord(symbol, hold, volume, capacity, modified_volume) ==
    [order_id |-> 0, symbol |-> symbol, hold |-> hold, volume |-> volume,
     capacity |-> capacity, order_type |-> "None", modified_volume |-> modified_volume,
     fee |-> -1, margin |-> -1, error |-> ""]

\* the state of the loop after the instrument's turn
Recorded(st, symbol, rng, orders_to_close, opened) ==
    [sim |-> opened.sim,
     rng |-> rng,
     orders_info |-> [st.orders_info EXCEPT ![symbol] = opened.info],
     closed_orders_info |-> [st.closed_orders_info EXCEPT ![symbol] = orders_to_close],
     request |-> [st.request EXCEPT ![symbol] = opened.request]]

\* a turn that takes the open decision on the orders as they stood before the
\* closes, and closes afterwards
OpenBeforeClose(st, c, symbol, hold, volume, rng, n_orders, orders_to_close) ==
    Recorded(st, symbol, rng, orders_to_close,
             [OpenDecision(st.sim,
                           IntentRecord(symbol, hold, volume,
                                        OrdersCapacity(c.symbol_max_orders, n_orders, 0),
                                        GetModifiedVolume(st.sim.symbols_info[symbol], volume)),
                           symbol, c.fee)
              EXCEPT !.sim = CloseAll(@, orders_to_close)])

\* the turn from the close_order calls on: closes, capacity, intent record, open decision
CloseAndOpen(st, c, symbol, hold, volume, rng, n_orders, orders_to_close) ==
    Recorded(st, symbol, rng, orders_to_close,
             OpenDecision(CloseAll(st.sim, orders_to_close),
                          IntentRecord(symbol, hold, volume,
                                       OrdersCapacity(c.symbol_max_orders, n_orders,
                                                      Len(orders_to_close)),
                                       GetModifiedVolume(st.sim.symbols_info[symbol], volume)),
                          symbol, c.fee))

\* the turn from the close draws on
DrawCloses(st, c, symbol, hold, volume, symbol_orders, closes) ==
    CloseAndOpen(st, c, symbol, hold, volume, Advance(st.rng, 1 + Len(closes)),
                 Len(symbol_orders), OrdersToClose(symbol_orders, closes))

\* the turn of one instrument: hold draw, then one close draw per open order
Decide(st, c, symbol, symbol_action) ==
    DrawCloses(st, c, symbol,
               Choice(st.rng, Probability(symbol_action[c.symbol_max_orders + 1])),
               symbol_action[c.symbol_max_orders + 2],
               SymbolOrders(st.sim, symbol),
               CloseDraws(Advance(st.rng, 1), symbol_action,
                          Len(SymbolOrders(st.sim, symbol)), c.symbol_max_orders))

\* one pass of the loop over self.trading_symbols, for its i-th instrument
ApplySymbol(st, i, action, c) ==
    Decide(st, c, c.trading_symbols[i], SymbolAction(action, i, c.symbol_max_orders))

RECURSIVE ApplyFrom(_, _, _, _)
ApplyFrom(st, i, action, c) ==
    IF i > Len(c.trading_symbols) THEN st
    ELSE ApplyFrom(ApplySymbol(st, i, action, c), i + 1, action, c)

\* the instruments of self.trading_symbols
TradingSymbols(c) == {c.trading_symbols[i] : i \in 1..Len(c.trading_symbols)}

\* _apply_action(action) on a simulator and a generator: both after the call,
\* orders_info, closed_orders_info, and per instrument how create_order was answered
\* ("none" when it was not called, else "accepted" or "rejected")
ApplyAction(sim, rng, action, c) ==
    ApplyFrom([sim |-> sim, rng |-> rng,
               orders_info |-> [s \in TradingSymbols(c) |-> [error |-> ""]],
               closed_orders_info |-> [s \in TradingSymbols(c) |-> <<>>],
               request |-> [s \in TradingSymbols(c) |-> "none"]],
              1, action, c)

-----------------------------------------------------------------------------
(* MtEnv.__init__ *)

\* self._initial_start_tick, self._max_end_tick
InitialStartTick(c) == c.window_size - 1
MaxEndTick == NumTimePoints - 1

\* time_points[t]: the time axis is 0, 1, 2, ... so a time point is its index
TimePoint(t) == t

\* the arguments kept as they were passed
ConstructAsPassed(args, osim) == args

\* the attributes __init__ keeps from its arguments; symbol_max_orders is forced
\* to 1 when the simulator does not hedge
Construct(args, osim) ==
    [args EXCEPT !.symbol_max_orders = IF ~osim.hedge THEN 1 ELSE @]

\* a simulator as handed to __init__: no open orders, balance = equity
NewSimulator(hedge, symbols_info, balance) ==
    [hedge |-> hedge, symbols_info |-> symbols_info, balance |-> balance,
     equity |-> balance, margin |-> 0, orders |-> <<>>, closed |-> 0,
     current_time |-> 0,
     symbols_data |-> DOMAIN symbols_info, unit_symbols |-> DOMAIN symbols_info]

\* _create_info(**kwargs): of the info dict the model keeps balance, equity,
\* margin and step_reward (<<>> when the key is absent); orders and
\* closed_orders are kept in ret only
CreateInfo(sim, step_reward) ==
    [balance |-> sim.balance, equity |-> sim.equity, margin |-> sim.margin,
     step_reward |-> step_reward]

-----------------------------------------------------------------------------
(* MtEnv.reset *)

\* the fields reset and step read and write, as one record
Env == [np_rng |-> np_rng, simulator |-> simulator, initial_balance |-> initial_balance,
        start_tick |-> start_tick, end_tick |-> end_tick, current_tick |-> current_tick,
        truncated |-> truncated, history |-> history]

\* a reset that keeps the generator even when a seed is given
ReseedNever(rng, seed) == rng

\* a reset that restarts the generator when no seed is given
ReseedAlways(rng, seed) ==
    IF seed # <<>> THEN DefaultRng(seed[1]) ELSE DefaultRng(ConstructorSeed)

\* if seed is not None: self.np_rng = np.random.default_rng(seed=seed)
Reseed(rng, seed) == IF seed # <<>> THEN DefaultRng(seed[1]) ELSE rng

\* an end range that starts at start_tick itself
EndRangeFromStart(c, start) ==
    [low |-> start, high |-> Min(MaxEndTick, start + c.max_time_split_length)]

\* the sampling ranges [low, high) of start_tick and of end_tick
StartRange(c) == [low |-> InitialStartTick(c), high |-> MaxEndTick - c.min_time_split_length]
EndRange(c, start) ==
    [low |-> start + c.min_time_split_length,
     high |-> Min(MaxEndTick, start + c.max_time_split_length)]

\* the end of reset: the simulator's clock is set, the history starts
Started(e, seed) ==
    [env |-> [e EXCEPT !.history = <<CreateInfo(e.simulator, <<>>)>>],
     raised |-> FALSE,
     ret |-> [call |-> "reset", seed |-> seed, info |-> CreateInfo(e.simulator, <<>>)]]

Finish(e, seed) ==
    Started([e EXCEPT !.simulator.current_time = TimePoint(e.current_tick)], seed)

\* the draw of end_tick without moving current_tick to the drawn start_tick
DrawEndStale(e, seed, er) ==
    IF er.low >= er.high
    THEN [env |-> e, raised |-> TRUE, ret |-> [call |-> "reset", seed |-> seed]]
    ELSE Finish([e EXCEPT !.np_rng = Advance(@, 1),
                          !.end_tick = Integers_(e.np_rng, er.low, er.high)], seed)

\* the draw of end_tick, start_tick drawn
DrawEnd(e, seed, er) ==
    IF er.low >= er.high
    THEN [env |-> e, raised |-> TRUE, ret |-> [call |-> "reset", seed |-> seed]]
    ELSE Finish([e EXCEPT !.np_rng = Advance(@, 1),
                          !.end_tick = Integers_(e.np_rng, er.low, er.high),
                          !.current_tick = e.start_tick], seed)

\* if self.time_split: the draws of start_tick and end_tick
TimeSplit(e, c, seed, sr) ==
    IF ~c.time_split THEN Finish(e, seed)
    ELSE IF sr.low >= sr.high
    THEN [env |-> e, raised |-> TRUE, ret |-> [call |-> "reset", seed |-> seed]]
    ELSE DrawEnd([e EXCEPT !.np_rng = Advance(@, 1),
                           !.start_tick = Integers_(e.np_rng, sr.low, sr.high)],
                 seed,
                 EndRange(c, Integers_(e.np_rng, sr.low, sr.high)))

\* if self.randomize_initial_balance: equity and balance are one lognormal draw
Randomize(e, c) ==
    IF c.randomize_initial_balance
    THEN [e EXCEPT !.simulator.equity = LogNormal(e.np_rng),
                   !.simulator.balance = LogNormal(e.np_rng),
                   !.initial_balance = LogNormal(e.np_rng),
                   !.np_rng = Advance(@, 1)]
    ELSE e

\* a reset that goes on with the simulator of the episode before
ResetFnOnSameSimulator(e, c, osim, seed) ==
    TimeSplit(Randomize([e EXCEPT !.np_rng = Reseed(@, seed),
                                  !.truncated = FALSE,
                                  !.current_tick = e.start_tick,
                                  !.initial_balance = e.simulator.balance], c),
              c, seed, StartRange(c))

\* reset(seed) on the environment e: the environment after the call, what it
\* returns, and raised = TRUE when rng.integers raised ValueError (low >= high)
ResetFn(e, c, osim, seed) ==
    TimeSplit(Randomize([e EXCEPT !.np_rng = Reseed(@, seed),
                                  !.truncated = FALSE,
                                  !.current_tick = e.start_tick,
                                  !.simulator = osim,
                                  !.initial_balance = osim.balance], c),
              c, seed, StartRange(c))

SetEnv(e) ==
    /\ np_rng' = e.np_rng
    /\ simulator' = e.simulator
    /\ initial_balance' = e.initial_balance
    /\ start_tick' = e.start_tick
    /\ end_tick' = e.end_tick
    /\ current_tick' = e.current_tick
    /\ truncated' = e.truncated
    /\ history' = e.history

\* the call leaves the environment r.env and returns r.ret
Returns(r) ==
    /\ ~r.raised
    /\ r.env.np_rng.pos <= MaxDraws
    /\ SetEnv(r.env)
    /\ ret' = r.ret
    /\ pc' = "ok"
    /\ UNCHANGED <<cfg, original_simulator, prices, pool>>

\* the call leaves the environment r.env and raises
Raises(r) ==
    /\ r.raised
    /\ r.env.np_rng.pos <= MaxDraws
    /\ SetEnv(r.env)
    /\ ret' = r.ret
    /\ pc' = "raised"
    /\ UNCHANGED <<cfg, original_simulator, prices, pool>>

\* reset(seed) returns (observation, info)
Reset(seed) ==
    /\ pc \in {"constructed", "ok", "raised"}
    /\ Returns(ResetFn(Env, cfg, original_simulator, seed))

\* reset(seed) raises ValueError out of rng.integers
ResetRaise(seed) ==
    /\ pc \in {"constructed", "ok", "raised"}
    /\ Raises(ResetFn(Env, cfg, original_simulator, seed))

-----------------------------------------------------------------------------
(* MtEnv.step *)

\* truncation reported one tick late
TruncatesPastEnd(tick, end) == tick > end

\* if self._current_tick == self._end_tick: self._truncated = True
Truncates(tick, end) == tick = end

\* a reward measured from the initial balance instead of the previous equity
CalculateRewardFromBalance(prev_equity, current_equity, balance0) ==
    [kind |-> "linear", num |-> (current_equity - balance0) * 100, den |-> balance0]

\* _calculate_reward: (current_equity - prev_equity) / initial_balance * 100,
\* kept as the fraction num / den
CalculateReward(prev_equity, current_equity, balance0) ==
    [kind |-> "linear", num |-> (current_equity - prev_equity) * 100, den |-> balance0]

\* a log reward that guards the current equity only
CalculateLogRewardOfCurrent(prev_equity, current_equity) ==
    IF current_equity > 0
    THEN [kind |-> "log", num |-> current_equity, den |-> prev_equity]
    ELSE [kind |-> "floor", num |-> -10, den |-> 1]

\* _calculate_log_reward: ln(num / den), or the floor -10
CalculateLogReward(prev_equity, current_equity) ==
    IF prev_equity > 0 /\ current_equity > 0
    THEN [kind |-> "log", num |-> current_equity, den |-> prev_equity]
    ELSE [kind |-> "floor", num |-> -10, den |-> 1]

\* equity / initial_balance < loss_cut, loss_cut in percent, initial_balance > 0
BelowLossCut(equity, balance0, loss_cut) == equity * 100 < loss_cut * balance0

\* the terminal flag of step; loss_cut = <<>> is None
Terminal(c, equity, balance0) ==
    LET terminal == IF c.done_if_equity_zero THEN equity = 0 ELSE FALSE
    IN  IF c.loss_cut # <<>> THEN BelowLossCut(equity, balance0, c.loss_cut[1])
        ELSE terminal

\* a premium on the yearly rate, not divided by the days of a year
RiskPremiumYearly(c, balance) ==
    IF c.risk_premium THEN [num |-> balance * c.risk_free_rate, den |-> 100]
    ELSE [num |-> 0, den |-> 100]

\* balance * risk_free_rate / 365.25 as the fraction num / den, risk_free_rate
\* in percent; 0 when risk_premium is off
RiskPremium(c, balance) ==
    IF c.risk_premium THEN [num |-> balance * c.risk_free_rate, den |-> 36525]
    ELSE [num |-> 0, den |-> 36525]

\* the reward of the step
StepReward(c, prev_equity, current_equity, balance0) ==
    IF c.log_reward THEN CalculateLogReward(prev_equity, current_equity)
    ELSE CalculateReward(prev_equity, current_equity, balance0)

\* orders_info, closed_orders_info and the answers of create_order
Calls(applied) ==
    [orders_info |-> applied.orders_info,
     closed_orders_info |-> applied.closed_orders_info,
     request |-> applied.request]

\* the step from simulator.tick on: e1 is the environment after the clock
\* advanced, sim2 the simulator after the tick, info the info of the step
Returned(e1, c, calls, sim2, info) ==
    [env |-> [e1 EXCEPT !.simulator = sim2, !.history = Append(@, info)],
     raised |-> FALSE,
     ret |-> [call |-> "step",
              reward |-> [base |-> info.step_reward[1], minus |-> RiskPremium(c, sim2.balance)],
              terminated |-> Terminal(c, sim2.equity, e1.initial_balance),
              truncated |-> e1.truncated,
              info |-> info] @@ calls]

Ticking(e1, c, calls, sim2) ==
    Returned(e1, c, calls, sim2,
             CreateInfo(sim2, <<StepReward(c, e1.history[Len(e1.history)].equity,
                                           sim2.equity, e1.initial_balance)>>))

\* the step after _apply_action: the clock advances, then time_points is read
Clocked(e1, c, calls) ==
    IF e1.current_tick >= NumTimePoints
    THEN [env |-> e1, raised |-> TRUE, ret |-> [call |-> "step"] @@ calls]
    ELSE Ticking(e1, c, calls,
                 Tick(e1.simulator,
                      TimePoint(e1.current_tick) - TimePoint(e1.current_tick - 1)))

Applied(e, c, applied) ==
    Clocked([e EXCEPT !.simulator = applied.sim, !.np_rng = applied.rng,
                      !.current_tick = @ + 1,
                      !.truncated = IF Truncates(e.current_tick + 1, e.end_tick)
                                    THEN TRUE ELSE @],
            c, Calls(applied))

\* step(action) on the environment e: the environment after the call, what it
\* returns, and raised = TRUE when time_points[current_tick] raised IndexError
StepFn(e, c, action) == Applied(e, c, ApplyAction(e.simulator, e.np_rng, action, c))

\* step(action) returns (observation, reward, terminated, truncated, info);
\* once truncation is reported further steps are not taken before a reset
Step(action) ==
    /\ pc = "ok"
    /\ ~truncated
    /\ current_tick + 1 < NumTimePoints
    /\ Returns(StepFn(Env, cfg, action))

\* step(action) raises IndexError: the tick is past the end of the time axis
StepRaise(action) ==
    /\ pc = "ok"
    /\ ~truncated
    /\ current_tick + 1 >= NumTimePoints
    /\ Raises(StepFn(Env, cfg, action))

-----------------------------------------------------------------------------
(* Configurations and specifications *)

\* instrument metadata with volume_min = 1, volume_max = 2, volume_step = 1
DefaultSymbolInfo == [volume_min |-> 1, volume_max |-> 2, volume_step |-> 1]

\* the balance of the simulator handed to __init__
OriginalBalance == 12

DefaultArgs ==
    [trading_symbols |-> <<1, 2>>, symbol_max_orders |-> 1, window_size |-> 2, fee |-> 1,
     randomize_initial_balance |-> FALSE, time_split |-> FALSE,
     min_time_split_length |-> 1, max_time_split_length |-> 2,
     risk_free_rate |-> 2, risk_premium |-> FALSE, done_if_equity_zero |-> FALSE,
     loss_cut |-> <<>>, log_reward |-> FALSE]

DefaultSimulator ==
    NewSimulator(TRUE, [s \in Symbols |-> DefaultSymbolInfo], OriginalBalance)

\* p = list(map(get_price_at, self.time_points)) for the instrument
LookedUp(symbol) == [k \in 1..NumTimePoints |-> PriceAt(symbol, TimePoint(k - 1))]

\* _get_prices without a worker pool
GetPrices(c) == [i \in 1..Len(c.trading_symbols) |-> LookedUp(c.trading_symbols[i])]

\* multiprocessing_pool is None, or no map call has been made
NoPool == [i |-> 0, done |-> <<>>, out |-> <<>>]

\* the state after __init__(original_simulator, ..., seed)
Constructed(args, osim) ==
    /\ cfg = Construct(args, osim)
    /\ prices = GetPrices(Construct(args, osim))
    /\ pool = NoPool
    /\ original_simulator = osim
    /\ np_rng = DefaultRng(ConstructorSeed)
    /\ start_tick = args.window_size - 1
    /\ end_tick = NumTimePoints - 1
    /\ simulator = osim
    /\ initial_balance = 0
    /\ current_tick = 0
    /\ truncated = FALSE
    /\ history = <<>>
    /\ ret = [call |-> "init"]
    /\ pc = "constructed"

\* the attributes of the environment after __init__, before the first reset
ConstructedEnv(c, osim) ==
    [np_rng |-> DefaultRng(ConstructorSeed), simulator |-> osim, initial_balance |-> 0,
     start_tick |-> InitialStartTick(c), end_tick |-> MaxEndTick, current_tick |-> 0,
     truncated |-> FALSE, history |-> <<>>]

\* one order slot for each of two instruments, two order slots for one instrument
SlotArgs ==
    {DefaultArgs,
     [DefaultArgs EXCEPT !.trading_symbols = <<1>>, !.symbol_max_orders = 2]}

\* time_split off, and on with min_time_split_length 0 and 1
SplitArgs(base) ==
    {base} \cup {[base EXCEPT !.time_split = TRUE, !.min_time_split_length = m] : m \in {0, 1}}

\* hedging environments, with and without time-windowing
Init ==
    \E slots \in SlotArgs : \E args \in SplitArgs(slots) :
        Constructed(args, DefaultSimulator)

Next ==
    \/ \E seed \in ResetSeeds : Reset(seed)
    \/ \E action \in ActionSpace(cfg) : Step(action)
    \/ \E action \in ActionSpace(cfg) : StepRaise(action)

Spec == Init /\ [][Next]_vars

-----------------------------------------------------------------------------
(* Order slots *)

\* the open orders of instrument s
OpenOrders(sim, s) == SymbolOrders(sim, s)

\* the ids of a sequence of orders
Ids(orders) == {orders[k].id : k \in 1..Len(orders)}

\* C1: in hedge mode with symbol_max_orders = N, starting from a simulator
\* without open orders, every trading instrument has at most N open orders
\* after any sequence of resets and steps.
C1_OpenOrdersWithinSlots ==
    simulator.hedge =>
        \A s \in TradingSymbols(cfg) :
            Len(OpenOrders(simulator, s)) <= cfg.symbol_max_orders

\* C1 witness: with two slots, both are occupied after a step that was asked
\* to open a third order and got the capacity error instead
C1_Witness ==
    /\ simulator.hedge
    /\ cfg.symbol_max_orders = 2
    /\ pc = "ok"
    /\ ret.call = "step"
    /\ Len(OpenOrders(simulator, 1)) = 2
    /\ ~ret.orders_info[1].hold
    /\ ret.orders_info[1].error = "cannot add more orders"

\* C2: hedge mode, symbol_max_orders = 1: a step that asks to open an order
\* (hold false) for an instrument whose one open order is not closed in the
\* step records the capacity error for it, leaves its order_id null and
\* creates no order for it; every other instrument is still processed: the
\* orders drawn for closing are closed, and an order is requested for it
\* unless it holds or has no capacity itself.
C2_CapacityErrorIsLocal ==
    [][(ret'.call = "step" /\ simulator.hedge /\ cfg.symbol_max_orders = 1) =>
        \A s \in TradingSymbols(cfg) :
            (/\ Len(OpenOrders(simulator, s)) = 1
             /\ ret'.closed_orders_info[s] = <<>>
             /\ ~ret'.orders_info[s].hold)
            =>
            /\ ret'.orders_info[s].error = "cannot add more orders"
            /\ ret'.orders_info[s].order_id = 0
            /\ ret'.request[s] = "none"
            /\ Ids(OpenOrders(simulator', s)) = Ids(OpenOrders(simulator, s))
            /\ \A t \in TradingSymbols(cfg) \ {s} :
                /\ Ids(ret'.closed_orders_info[t]) \subseteq Ids(OpenOrders(simulator, t))
                /\ Ids(ret'.closed_orders_info[t]) \cap Ids(OpenOrders(simulator', t)) = {}
                /\ (~ret'.orders_info[t].hold /\ ret'.orders_info[t].capacity # 0)
                       => ret'.request[t] # "none"
                /\ ret'.request[t] = "accepted"
                       => ret'.orders_info[t].order_id \in Ids(OpenOrders(simulator', t))
       ]_vars

\* C2 witness: in one step instrument 1 got the capacity error while the open
\* order of instrument 2 was closed and a new one was created for it
C2_Witness ==
    /\ simulator.hedge
    /\ cfg.symbol_max_orders = 1
    /\ Len(cfg.trading_symbols) = 2
    /\ pc = "ok"
    /\ ret.call = "step"
    /\ ~ret.orders_info[1].hold
    /\ ret.orders_info[1].error = "cannot add more orders"
    /\ ret.orders_info[1].order_id = 0
    /\ Len(ret.closed_orders_info[2]) = 1
    /\ ret.request[2] = "accepted"

\* C3: when the simulator rejects the order creation of an instrument during
\* step, the instrument's intent record carries a non-empty error and a null
\* order_id, the instrument's open orders are not enlarged, every instrument of
\* the step has its intent record, and the step completes normally (clock
\* advanced by one tick, one history entry appended, a result returned) as
\* long as the next tick is on the time axis.
C3_RejectionIsRecorded ==
    [][ret'.call = "step" =>
        \A s \in TradingSymbols(cfg) :
            ret'.request[s] = "rejected" =>
                /\ ret'.orders_info[s].error # ""
                /\ ret'.orders_info[s].order_id = 0
                /\ Ids(OpenOrders(simulator', s)) \subseteq Ids(OpenOrders(simulator, s))
                /\ \A t \in TradingSymbols(cfg) : "hold" \in DOMAIN ret'.orders_info[t]
                /\ current_tick < MaxEndTick =>
                    /\ pc' = "ok"
                    /\ current_tick' = current_tick + 1
                    /\ Len(history') = Len(history) + 1
                    /\ "reward" \in DOMAIN ret'
       ]_vars

\* C3 witness: a completed step in which the request of instrument 1 was
\* rejected and the request of instrument 2, processed after it, was accepted
C3_Witness ==
    /\ pc = "ok"
    /\ ret.call = "step"
    /\ Len(cfg.trading_symbols) = 2
    /\ ret.request[1] = "rejected"
    /\ ret.orders_info[1].error = "low free margin"
    /\ ret.request[2] = "accepted"
    /\ Len(history) >= 2

-----------------------------------------------------------------------------
(* Modified volume *)

\* largest volume_min and volume_max, largest volume_step of the metadata tried
MaxVolume == 4
MaxVolumeStep == 3

\* instrument metadata with volume_min <= volume_max and volume_step > 0 for
\* which some multiple of volume_step lies in [volume_min, volume_max]
VolumeInfos ==
    {si \in [volume_min : 1..MaxVolume, volume_max : 1..MaxVolume,
             volume_step : 1..MaxVolumeStep] :
        /\ si.volume_min <= si.volume_max
        /\ \E v \in si.volume_min..si.volume_max : v % si.volume_step = 0}

\* the volume components tried: the boundary values -1 and 1, zero, and small
\* volumes in between
VolumeValues == {-100, -3, 0, 2, 100}

\* action vectors of a single instrument with those volume components
VolumeActions(c) ==
    {closes \o <<h, v>> : closes \in [1..c.symbol_max_orders -> LogitValues],
                          h \in LogitValues, v \in VolumeValues}

\* one instrument whose metadata is any of VolumeInfos
InitVolume ==
    \E si \in VolumeInfos :
        Constructed([DefaultArgs EXCEPT !.trading_symbols = <<1>>],
                    NewSimulator(TRUE, [s \in Symbols |-> si], OriginalBalance))

NextVolume ==
    \/ \E seed \in ResetSeeds : Reset(seed)
    \/ \E action \in VolumeActions(cfg) : Step(action)

SpecVolume == InitVolume /\ [][NextVolume]_vars

\* C4: for every instrument metadata with volume_min <= volume_max and
\* volume_step > 0 and every raw signed volume, the modified volume of a step
\* lies in [volume_min, volume_max] and is an integer multiple of volume_step.
C4_ModifiedVolumeInRange ==
    (pc = "ok" /\ ret.call = "step") =>
        \A s \in TradingSymbols(cfg) :
            /\ simulator.symbols_info[s].volume_min <= ret.orders_info[s].modified_volume
            /\ ret.orders_info[s].modified_volume <= simulator.symbols_info[s].volume_max
            /\ ret.orders_info[s].modified_volume % simulator.symbols_info[s].volume_step = 0

-----------------------------------------------------------------------------
(* Termination *)

\* loss_cut unset, and set to 0 % and to 50 % of the initial balance
LossCuts == {<<>>, <<0>>, <<50>>}

\* one instrument, every combination of done_if_equity_zero and loss_cut
InitTerm ==
    \E zero \in BOOLEAN : \E cut \in LossCuts :
        Constructed([DefaultArgs EXCEPT !.trading_symbols = <<1>>,
                                        !.done_if_equity_zero = zero,
                                        !.loss_cut = cut],
                    DefaultSimulator)

NextTerm ==
    \/ \E seed \in ResetSeeds : Reset(seed)
    \/ \E action \in ActionSpace(cfg) : Step(action)

SpecTerm == InitTerm /\ [][NextTerm]_vars

\* C5: for every combination of done_if_equity_zero and loss_cut, the
\* terminated flag returned by step is true if and only if done_if_equity_zero
\* is on and the equity after the tick is exactly zero, or loss_cut is set and
\* equity / initial_balance < loss_cut.
C5_TerminatedIffEither ==
    (pc = "ok" /\ ret.call = "step") =>
        (ret.terminated <=>
            \/ cfg.done_if_equity_zero /\ simulator.equity = 0
            \/ cfg.loss_cut # <<>>
                /\ BelowLossCut(simulator.equity, initial_balance, cfg.loss_cut[1]))

-----------------------------------------------------------------------------
(* Episode clock and history *)

\* the last call was a reset or a step and it returned
Completed == pc = "ok" /\ ret.call \in {"reset", "step"}

\* C6: within an episode each step increments current_tick by exactly one and
\* returns truncated = TRUE if and only if current_tick equals end_tick after
\* the increment; truncated is FALSE after reset.
C6_TickAndTruncation ==
    [][/\ (pc' = "ok" /\ ret'.call = "step") =>
            /\ current_tick' = current_tick + 1
            /\ ret'.truncated <=> (current_tick' = end_tick')
            /\ truncated' = ret'.truncated
       /\ (pc' = "ok" /\ ret'.call = "reset") => ~truncated']_vars

\* a third step of an episode reports truncation, the two before it did not
C6_Witness ==
    /\ Completed /\ ret.call = "step"
    /\ ret.truncated
    /\ current_tick = end_tick
    /\ Len(history) = 4

\* C7: in every state reached by reset followed by steps up to and including
\* the step that reports truncation, initial_start_tick <= start_tick <=
\* current_tick <= end_tick <= max_end_tick.
C7_TickOrder ==
    Completed =>
        /\ InitialStartTick(cfg) <= start_tick
        /\ start_tick <= current_tick
        /\ current_tick <= end_tick
        /\ end_tick <= MaxEndTick

\* C8: after reset and after every step of an episode that returns, with
\* rejected orders, capacity errors and time-windowing included, the length of
\* the history equals current_tick - start_tick + 1.
C8_HistoryLength ==
    Completed => Len(history) = current_tick - start_tick + 1

\* the second step of a time-windowed episode that starts after the first
\* possible tick records an error for an instrument
C8_Witness ==
    /\ Completed /\ ret.call = "step"
    /\ cfg.time_split
    /\ start_tick > InitialStartTick(cfg)
    /\ Len(history) = 3
    /\ \E s \in TradingSymbols(cfg) : ret.orders_info[s].error # ""

-----------------------------------------------------------------------------
(* Random generator *)

\* one instrument, with and without balance randomization and time-windowing
\* (windows of one or two steps)
InitRng ==
    \E randomize \in BOOLEAN : \E split \in BOOLEAN :
        Constructed([DefaultArgs EXCEPT !.trading_symbols = <<1>>,
                                        !.randomize_initial_balance = randomize,
                                        !.time_split = split,
                                        !.max_time_split_length = 3],
                    DefaultSimulator)

NextRng ==
    \/ \E seed \in ResetSeeds : Reset(seed)
    \/ \E action \in ActionSpace(cfg) : Step(action)

SpecRng == InitRng /\ [][NextRng]_vars

\* what the steps of a run return and leave behind, one entry per step, up to
\* the step that raises or reports truncation
RECURSIVE StepsFrom(_, _, _)
StepsFrom(r, c, actions) ==
    IF actions = <<>> \/ r.raised \/ r.env.truncated THEN <<r>>
    ELSE <<r>> \o StepsFrom(StepFn(r.env, c, Head(actions)), c, Tail(actions))

\* the trajectory of reset(seed) followed by the actions on the environment e
Run(e, c, osim, seed, actions) == StepsFrom(ResetFn(e, c, osim, seed), c, actions)

\* the all-zero vector, a sell that is not held, a buy that is not held with
\* the close of the open order, for one instrument with one slot
RunActions == {<<0, 0, 0>>, <<-100, -100, -100>>, <<100, -100, 100>>}

\* the action sequences of the compared runs
RunSequences == {<<a, b>> : a \in RunActions, b \in RunActions}

\* the explicit seeds
Seeds == ResetSeeds \ {<<>>}

\* C9: a run that calls reset with an explicit seed and applies an action
\* sequence produces the same trajectory (ticks, initial balance, hold and
\* close decisions, orders, rewards, flags, history) on an environment in any
\* state earlier episodes left it in as on the freshly constructed environment.
C9_SeededRunsAgree ==
    Completed =>
        \A seed \in Seeds : \A actions \in RunSequences :
            Run(Env, cfg, original_simulator, seed, actions)
                = Run(ConstructedEnv(cfg, original_simulator), cfg, original_simulator,
                      seed, actions)

\* an order was opened in and closed by the steps of the trajectory
Trades(run) ==
    /\ Len(run) = 3
    /\ ~run[3].raised
    /\ run[2].ret.request[1] = "accepted"
    /\ run[3].ret.closed_orders_info[1] # <<>>

\* earlier episodes moved the generator, the window, the balance and the
\* orders away from the constructed environment, and a seeded run from here
\* opens and closes an order
C9_Witness ==
    /\ Completed
    /\ cfg.randomize_initial_balance /\ cfg.time_split
    /\ np_rng.pos >= 4
    /\ simulator.orders # <<>>
    /\ start_tick # InitialStartTick(cfg)
    /\ \E seed \in Seeds : \E actions \in RunSequences :
        /\ actions[1] = <<0, 0, 0>>
        /\ initial_balance # Run(Env, cfg, original_simulator, seed, actions)[1].env.initial_balance
        /\ \E others \in RunSequences :
            Trades(Run(Env, cfg, original_simulator, seed, others))

\* the draws reset makes: one for the balance, two for the time window
ResetDraws(c) ==
    (IF c.randomize_initial_balance THEN 1 ELSE 0) + (IF c.time_split THEN 2 ELSE 0)

\* the draws _apply_action makes: per instrument one for hold and one for
\* each open order
RECURSIVE StepDraws(_, _, _)
StepDraws(sim, c, i) ==
    IF i > Len(c.trading_symbols) THEN 0
    ELSE 1 + Len(SymbolOrders(sim, c.trading_symbols[i])) + StepDraws(sim, c, i + 1)

\* C10: the generator is replaced only by a reset that is given a seed; a
\* reset without a seed leaves the stream where it was, advanced by reset's
\* own draws, and step only advances the stream.
C10_GeneratorKeptUnlessSeeded ==
    [][/\ (pc' = "ok" /\ ret'.call = "reset" /\ ret'.seed = <<>>) =>
            np_rng' = Advance(np_rng, ResetDraws(cfg))
       /\ (pc' = "ok" /\ ret'.call = "reset" /\ ret'.seed # <<>>) =>
            np_rng' = Advance(DefaultRng(ret'.seed[1]), ResetDraws(cfg))
       /\ (pc' = "ok" /\ ret'.call = "step") =>
            np_rng' = Advance(np_rng, StepDraws(simulator, cfg, 1))]_vars

\* an unseeded reset has followed a seeded reset and one step with one draw:
\* the stream of the seed stands after the draws of both resets and the step
C10_Witness ==
    /\ Completed /\ ret.call = "reset" /\ ret.seed = <<>>
    /\ cfg.randomize_initial_balance /\ cfg.time_split
    /\ np_rng.seed # ConstructorSeed
    /\ np_rng.pos = 2 * ResetDraws(cfg) + 1

-----------------------------------------------------------------------------
(* Rewards *)

\* the sum of the numerators of the step rewards recorded in h[i + 1 .. j]
RECURSIVE RewardSum(_, _, _)
RewardSum(h, i, j) ==
    IF j <= i THEN 0 ELSE h[j].step_reward[1].num + RewardSum(h, i, j - 1)

\* C11: with the linear reward and no risk premium the rewards of an episode
\* telescope: every step reward is a numerator over the episode's one
\* initial_balance, the rewards of steps i+1..j sum to (E_j - E_i) /
\* initial_balance * 100 for the equities E_k recorded in the history, and
\* the reward step returns is the recorded one.
C11_RewardsTelescope ==
    (Completed /\ ~cfg.log_reward /\ ~cfg.risk_premium) =>
        /\ \A i \in 1..Len(history) : \A j \in 1..Len(history) :
            i < j =>
                /\ history[j].step_reward[1].kind = "linear"
                /\ history[j].step_reward[1].den = initial_balance
                /\ RewardSum(history, i, j) = (history[j].equity - history[i].equity) * 100
        /\ history[Len(history)].equity = simulator.equity
        /\ ret.call = "step" =>
            /\ ret.reward.base = history[Len(history)].step_reward[1]
            /\ ret.reward.minus.num = 0

\* two steps of an episode with a randomized initial balance moved the equity
\* twice: E0, E1 and E2 are three different values
C11_Witness ==
    /\ Completed /\ ~cfg.log_reward /\ ~cfg.risk_premium
    /\ cfg.randomize_initial_balance
    /\ initial_balance # OriginalBalance
    /\ Len(history) >= 3
    /\ history[1].equity # history[2].equity
    /\ history[2].equity # history[3].equity
    /\ history[1].equity # history[3].equity

\* one instrument, linear and logarithmic reward, with and without risk premium
InitReward ==
    \E log \in BOOLEAN : \E premium \in BOOLEAN :
        Constructed([DefaultArgs EXCEPT !.trading_symbols = <<1>>,
                                        !.log_reward = log,
                                        !.risk_premium = premium],
                    DefaultSimulator)

NextReward ==
    \/ \E seed \in ResetSeeds : Reset(seed)
    \/ \E action \in ActionSpace(cfg) : Step(action)

SpecReward == InitReward /\ [][NextReward]_vars

\* C12: with the logarithmic reward the step reward is the floor -10 exactly
\* when the current equity or the equity recorded by the step before is <= 0,
\* and ln(current / previous) otherwise; it is computed for every pair.
C12_LogRewardOrFloor ==
    (Completed /\ cfg.log_reward) =>
        \A k \in 2..Len(history) :
            /\ history[k].step_reward[1].kind \in {"log", "floor"}
            /\ history[k].step_reward[1].kind = "floor"
                <=> (history[k].equity <= 0 \/ history[k - 1].equity <= 0)
            /\ history[k].step_reward[1].kind = "floor" =>
                history[k].step_reward[1].num = -10
            /\ history[k].step_reward[1].kind = "log" =>
                /\ history[k].step_reward[1].num = history[k].equity
                /\ history[k].step_reward[1].den = history[k - 1].equity

\* an episode whose steps got the floor for an equity that fell to zero or
\* below, the floor again for the step after it, whose equity is positive, and
\* then the logarithm of a changed positive equity
C12_Witness ==
    /\ Completed /\ cfg.log_reward
    /\ Len(history) = 4
    /\ history[2].equity <= 0
    /\ history[2].step_reward[1].kind = "floor"
    /\ history[3].equity > 0
    /\ history[3].step_reward[1].kind = "floor"
    /\ history[4].step_reward[1].kind = "log"
    /\ history[4].equity # history[3].equity

-----------------------------------------------------------------------------
(* Time windows *)

\* C13: with time-windowing every sampled (start_tick, end_tick) satisfies
\* min_time_split_length <= end_tick - start_tick <= max_time_split_length,
\* start_tick >= initial_start_tick and end_tick <= max_end_tick.
C13_WindowWithinBounds ==
    (Completed /\ cfg.time_split) =>
        /\ end_tick - start_tick >= cfg.min_time_split_length
        /\ end_tick - start_tick <= cfg.max_time_split_length
        /\ start_tick >= InitialStartTick(cfg)
        /\ end_tick <= MaxEndTick

\* a repeated reset sampled a window of at least one tick that starts after
\* the first possible tick
C13_Witness ==
    /\ Completed /\ ret.call = "reset"
    /\ cfg.time_split /\ cfg.min_time_split_length = 1
    /\ np_rng.pos >= 4
    /\ start_tick > InitialStartTick(cfg)
    /\ end_tick > start_tick

-----------------------------------------------------------------------------
(* Observation *)

\* row t (from 0) of signal_features: the columns of all instruments side by side
RECURSIVE FeatureColumns(_, _, _)
FeatureColumns(c, t, i) ==
    IF i > Len(c.trading_symbols) THEN <<>>
    ELSE prices[i][t + 1] \o FeatureColumns(c, t, i + 1)

SignalFeatures(c) == [t \in 0..(NumTimePoints - 1) |-> FeatureColumns(c, t, 1)]

\* a[lo:hi] of an array with rows 0..n-1: the row indices, with Python's
\* handling of negative and of too large bounds
SliceBound(x, n) == IF x < 0 THEN Max(x + n, 0) ELSE Min(x, n)
SliceRows(lo, hi, n) ==
    [k \in 1..Max(SliceBound(hi, n) - SliceBound(lo, n), 0) |-> SliceBound(lo, n) + k - 1]

\* np.arcsinh on one number: zero stays zero, any other number is transformed
Preprocess(x) == IF x = 0 THEN 0 ELSE <<"arcsinh", x>>
PreprocessRow(row) == [k \in 1..Len(row) |-> Preprocess(row[k])]

\* a feature window that stops before current_tick
FeatureWindowBefore(c, tick) ==
    SliceRows(tick - c.window_size + 1, tick, NumTimePoints)

\* the row indices of signal_features[current_tick - window_size + 1 : current_tick + 1]
FeatureWindow(c, tick) ==
    SliceRows(tick - c.window_size + 1, tick + 1, NumTimePoints)

\* orders[i, j] = [entry_price, volume, profit] for the open orders, zeros
\* elsewhere; raised when an order has no slot (IndexError)
OrderRow(symbol_orders, j) ==
    IF j <= Len(symbol_orders)
    THEN <<symbol_orders[j].entry_price, symbol_orders[j].volume, symbol_orders[j].profit>>
    ELSE <<0, 0, 0>>

OrderTensor(sim, c) ==
    [i \in 1..Len(c.trading_symbols) |->
        [j \in 1..c.symbol_max_orders |->
            PreprocessRow(OrderRow(SymbolOrders(sim, c.trading_symbols[i]), j))]]

\* _get_observation on the environment e
GetObservation(e, c) ==
    [raised |-> \E i \in 1..Len(c.trading_symbols) :
                    Len(SymbolOrders(e.simulator, c.trading_symbols[i])) > c.symbol_max_orders,
     balance |-> Preprocess(e.simulator.balance),
     equity |-> Preprocess(e.simulator.equity),
     margin |-> Preprocess(e.simulator.margin),
     rows |-> FeatureWindow(c, e.current_tick),
     features |-> [k \in 1..Len(FeatureWindow(c, e.current_tick)) |->
                     PreprocessRow(SignalFeatures(c)[FeatureWindow(c, e.current_tick)[k]])],
     orders |-> OrderTensor(e.simulator, c)]

\* C14: at reset and at every step up to the truncating one the feature
\* window is exactly the window_size consecutive rows of the feature cache
\* that end at current_tick, all on the time axis, and the order tensor has
\* S x M x 3 entries where the j-th open order of instrument i fills row
\* (i, j), the rows beyond the open orders are zero and every order has a row.
C14_ObservationShape ==
    Completed =>
        /\ ~GetObservation(Env, cfg).raised
        /\ Len(GetObservation(Env, cfg).features) = cfg.window_size
        /\ \A k \in 1..cfg.window_size :
            /\ GetObservation(Env, cfg).rows[k] = current_tick - cfg.window_size + k
            /\ GetObservation(Env, cfg).rows[k] \in 0..(NumTimePoints - 1)
            /\ Len(GetObservation(Env, cfg).features[k]) = 2 * Len(cfg.trading_symbols)
        /\ DOMAIN GetObservation(Env, cfg).orders = 1..Len(cfg.trading_symbols)
        /\ \A i \in 1..Len(cfg.trading_symbols) :
            /\ DOMAIN GetObservation(Env, cfg).orders[i] = 1..cfg.symbol_max_orders
            /\ Len(SymbolOrders(simulator, cfg.trading_symbols[i])) <= cfg.symbol_max_orders
            /\ \A j \in 1..cfg.symbol_max_orders :
                /\ Len(GetObservation(Env, cfg).orders[i][j]) = 3
                /\ j <= Len(SymbolOrders(simulator, cfg.trading_symbols[i])) =>
                    GetObservation(Env, cfg).orders[i][j][1]
                        = Preprocess(SymbolOrders(simulator, cfg.trading_symbols[i])[j].entry_price)
                /\ j > Len(SymbolOrders(simulator, cfg.trading_symbols[i])) =>
                    GetObservation(Env, cfg).orders[i][j] = <<0, 0, 0>>

\* the truncating step of an episode on the last tick of the time axis with
\* one of two slots occupied
C14_Witness ==
    /\ Completed /\ ret.call = "step" /\ ret.truncated
    /\ current_tick = NumTimePoints - 1
    /\ cfg.symbol_max_orders = 2
    /\ Len(SymbolOrders(simulator, 1)) = 1

-----------------------------------------------------------------------------
(* Episode state *)

\* C15: step never changes the original simulator, and a reset after any
\* steps yields an episode with the original simulator's orders, margin,
\* balance and equity (the balance and equity drawn when randomized), a
\* history of one entry, truncated FALSE and current_tick = start_tick.
C15_ResetRestoresOriginal ==
    [][/\ original_simulator' = original_simulator
       /\ (pc' = "ok" /\ ret'.call = "reset") =>
            /\ simulator'.orders = original_simulator.orders
            /\ simulator'.margin = original_simulator.margin
            /\ simulator'.closed = original_simulator.closed
            /\ simulator'.symbols_info = original_simulator.symbols_info
            /\ ~cfg.randomize_initial_balance =>
                /\ simulator'.balance = original_simulator.balance
                /\ simulator'.equity = original_simulator.equity
                /\ initial_balance' = original_simulator.balance
            /\ cfg.randomize_initial_balance =>
                /\ simulator'.balance = simulator'.equity
                /\ initial_balance' = simulator'.balance
            /\ simulator'.current_time = TimePoint(current_tick')
            /\ history' = <<CreateInfo(simulator', <<>>)>>
            /\ ~truncated'
            /\ current_tick' = start_tick']_vars

\* an unseeded reset on the constructor's stream after steps of an earlier
\* episode made three draws (a hold draw of a first step, a hold and a close
\* draw of a second step with an open order, or three hold draws)
C15_Witness ==
    /\ Completed /\ ret.call = "reset" /\ ret.seed = <<>>
    /\ ~cfg.randomize_initial_balance /\ ~cfg.time_split
    /\ np_rng.seed = ConstructorSeed
    /\ np_rng.pos = 3
    /\ simulator.orders = <<>>
    /\ Len(history) = 1

-----------------------------------------------------------------------------
(* Risk premium *)

\* C16: with the risk premium the reward step returns is the computed reward
\* minus balance * risk_free_rate / 365.25, the step_reward in the info and in
\* the history entry is the computed reward itself, and the computed reward
\* of a step is taken from the equity recorded by the step before.
C16_PremiumOnlyOnReturn ==
    [][(cfg.risk_premium /\ pc' = "ok" /\ ret'.call = "step") =>
        /\ ret'.reward.minus = [num |-> simulator'.balance * cfg.risk_free_rate,
                                den |-> 36525]
        /\ ret'.reward.base = StepReward(cfg, history[Len(history)].equity,
                                         simulator'.equity, initial_balance)
        /\ ret'.info.step_reward = <<ret'.reward.base>>
        /\ history' = Append(history, ret'.info)
        /\ ret'.info.equity = simulator'.equity
        /\ initial_balance' = initial_balance]_vars

\* a second step with the risk premium on a changed balance: an order was
\* closed, the premium is not zero and the equity moved in both steps
C16_Witness ==
    /\ Completed /\ ret.call = "step" /\ cfg.risk_premium
    /\ Len(history) = 3
    /\ ret.reward.minus.num # 0
    /\ simulator.balance # OriginalBalance
    /\ history[1].equity # history[2].equity
    /\ history[2].equity # history[3].equity

-----------------------------------------------------------------------------
(* Price cache built with a worker pool *)

\* the map call of the pool for instrument number i: no lookup has completed
MapCall(i) == [i |-> i, done |-> <<>>, out |-> <<>>]

\* the time points whose lookup has completed
Completions(pl) == {pl.done[n] : n \in 1..Len(pl.done)}

\* where in the order of completion the lookup of time point t stands
CompletionOf(pl, t) == CHOOSE n \in 1..Len(pl.done) : pl.done[n] = t

\* results handed back in the order the workers completed them
PoolResultsAsCompleted(pl) == pl.out

\* self.multiprocessing_pool.map(get_price_at, self.time_points): the results
\* in the order of the time points, whatever the order of completion
PoolMap(pl) == [k \in 1..Len(pl.done) |-> pl.out[CompletionOf(pl, k - 1)]]

\* __init__ has reached self.prices = self._get_prices() with a worker pool
Constructing(args, osim) ==
    /\ cfg = Construct(args, osim)
    /\ prices = <<>>
    /\ pool = MapCall(1)
    /\ original_simulator = osim
    /\ np_rng = DefaultRng(ConstructorSeed)
    /\ start_tick = args.window_size - 1
    /\ end_tick = NumTimePoints - 1
    /\ simulator = osim
    /\ initial_balance = 0
    /\ current_tick = 0
    /\ truncated = FALSE
    /\ history = <<>>
    /\ ret = [call |-> "init"]
    /\ pc = "get_prices"

\* a worker completes the lookup of time point t of the instrument in hand
WorkerCompletes(t) ==
    /\ pc = "get_prices"
    /\ t \notin Completions(pool)
    /\ pool' = [pool EXCEPT !.done = Append(@, t),
                            !.out = Append(@, PriceAt(cfg.trading_symbols[pool.i],
                                                      TimePoint(t)))]
    /\ UNCHANGED <<cfg, original_simulator, np_rng, simulator, initial_balance, start_tick,
                   end_tick, current_tick, truncated, history, prices, ret, pc>>

\* map returns: prices[symbol] = np.array(p); the loop goes to the next
\* instrument, or _get_prices returns and __init__ completes
MapReturns ==
    /\ pc = "get_prices"
    /\ Len(pool.done) = NumTimePoints
    /\ prices' = Append(prices, PoolMap(pool))
    /\ pool' = IF pool.i < Len(cfg.trading_symbols) THEN MapCall(pool.i + 1) ELSE pool
    /\ pc' = IF pool.i < Len(cfg.trading_symbols) THEN "get_prices" ELSE "constructed"
    /\ UNCHANGED <<cfg, original_simulator, np_rng, simulator, initial_balance, start_tick,
                   end_tick, current_tick, truncated, history, ret>>

InitPool == Constructing(DefaultArgs, DefaultSimulator)

NextPool ==
    \/ \E t \in 0..(NumTimePoints - 1) : WorkerCompletes(t)
    \/ MapReturns

SpecPool == InitPool /\ [][NextPool]_vars

\* C17: with a worker pool, in whatever order the lookups complete, row t of
\* each instrument's cached array is the price looked up for time point t:
\* the cache equals the one built without a pool.
C17_PoolKeepsTimeOrder ==
    /\ \A i \in 1..Len(prices) : prices[i] = LookedUp(cfg.trading_symbols[i])
    /\ pc = "constructed" => prices = GetPrices(cfg)

\* the cache is complete for both instruments although the lookups of the
\* last instrument completed in the reverse order of the time points
C17_Witness ==
    /\ pc = "constructed"
    /\ pool.i = 2
    /\ Len(prices) = 2
    /\ \A n \in 1..NumTimePoints : pool.done[n] = NumTimePoints - n

-----------------------------------------------------------------------------
(* Validation in __init__ *)

\* a check of the time points that accepts any number of them
AnyTimePoints(n, window_size) == TRUE

\* assert len(time_points) > window_size
EnoughTimePoints(n, window_size) == n > window_size

\* the instruments of trading_symbols from the i-th on are in the simulator's
\* metadata and their profit currency has a unit symbol: "" or the message
RECURSIVE SymbolsError(_, _, _)
SymbolsError(args, osim, i) ==
    IF i > Len(args.trading_symbols) THEN ""
    ELSE IF args.trading_symbols[i] \notin DOMAIN osim.symbols_info THEN "symbol not found"
    ELSE IF args.trading_symbols[i] \notin osim.unit_symbols THEN "unit symbol not found"
    ELSE SymbolsError(args, osim, i + 1)

\* the validations of __init__ in their order: "" or the message of the
\* first assertion that fails
ValidationError(args, osim) ==
    IF osim.symbols_data = {} \/ DOMAIN osim.symbols_info = {} THEN "no data available"
    ELSE IF Len(args.trading_symbols) = 0 THEN "no trading symbols provided"
    ELSE IF SymbolsError(args, osim, 1) # "" THEN SymbolsError(args, osim, 1)
    ELSE IF ~EnoughTimePoints(NumTimePoints, args.window_size)
    THEN "not enough time points provided"
    ELSE ""

\* __init__(original_simulator, ...) has been called with these arguments
Called(args, osim) ==
    /\ cfg = args
    /\ original_simulator = osim
    /\ prices = <<>>
    /\ pool = NoPool
    /\ np_rng = DefaultRng(ConstructorSeed)
    /\ start_tick = 0
    /\ end_tick = 0
    /\ simulator = osim
    /\ initial_balance = 0
    /\ current_tick = 0
    /\ truncated = FALSE
    /\ history = <<>>
    /\ ret = [call |-> "init"]
    /\ pc = "init"

\* __init__ returns: the environment is constructed
ConstructReturns ==
    /\ pc = "init"
    /\ ValidationError(cfg, original_simulator) = ""
    /\ cfg' = Construct(cfg, original_simulator)
    /\ prices' = GetPrices(cfg)
    /\ start_tick' = cfg.window_size - 1
    /\ end_tick' = NumTimePoints - 1
    /\ pc' = "constructed"
    /\ UNCHANGED <<original_simulator, pool, np_rng, simulator, initial_balance,
                   current_tick, truncated, history, ret>>

\* __init__ raises AssertionError: there is no environment
ConstructRaises ==
    /\ pc = "init"
    /\ ValidationError(cfg, original_simulator) # ""
    /\ ret' = [call |-> "init", error |-> ValidationError(cfg, original_simulator)]
    /\ pc' = "failed"
    /\ UNCHANGED <<cfg, original_simulator, prices, pool, np_rng, simulator, initial_balance,
                   start_tick, end_tick, current_tick, truncated, history>>

\* simulators with and without price data, metadata and unit symbols
CalledSimulators ==
    {DefaultSimulator,
     [DefaultSimulator EXCEPT !.symbols_data = {}],
     [DefaultSimulator EXCEPT !.symbols_info = <<>>],
     [DefaultSimulator EXCEPT !.symbols_info = <<DefaultSymbolInfo>>],
     [DefaultSimulator EXCEPT !.unit_symbols = {1}]}

\* one or two instruments or none, and windows that fit the time axis, fill
\* it, and exceed it
CalledArgs ==
    {[DefaultArgs EXCEPT !.trading_symbols = ts, !.window_size = w] :
        ts \in {<<>>, <<1>>, <<1, 2>>},
        w \in {2, NumTimePoints, NumTimePoints + 1}}

InitCalled ==
    \E args \in CalledArgs : \E osim \in CalledSimulators : Called(args, osim)

NextCalled ==
    \/ ConstructReturns
    \/ ConstructRaises
    \/ \E seed \in ResetSeeds : Reset(seed)
    \/ \E action \in ActionSpace(cfg) : Step(action)

SpecCalled == InitCalled /\ [][NextCalled]_vars

\* the simulator has no price data or no metadata, a trading symbol is absent
\* from the metadata or its profit currency has no unit symbol, or there are
\* fewer time points than the window size
Defective(args, osim) ==
    \/ osim.symbols_data = {}
    \/ DOMAIN osim.symbols_info = {}
    \/ \E i \in 1..Len(args.trading_symbols) :
        \/ args.trading_symbols[i] \notin DOMAIN osim.symbols_info
        \/ args.trading_symbols[i] \notin osim.unit_symbols
    \/ NumTimePoints < args.window_size

\* C18: whenever the simulator has no price data or no instrument metadata, a
\* trading symbol is absent from the metadata, a profit currency has no unit
\* conversion or there are fewer time points than the window size,
\* construction fails, and after a failed construction nothing is called.
C18_DefectsFailConstruction ==
    [][/\ (pc = "init" /\ Defective(cfg, original_simulator)) => pc' = "failed"
       /\ pc # "failed"]_vars

\* construction failed for a window larger than the time axis, on a simulator
\* and instruments that pass the other validations
C18_Witness ==
    /\ pc = "failed"
    /\ ret.error = "not enough time points provided"
    /\ cfg.window_size > NumTimePoints
    /\ Defective(cfg, original_simulator)

-----------------------------------------------------------------------------
(* Accounts without hedging *)

\* a simulator that does not hedge; symbol_max_orders passed as 1 and as 2,
\* for one and for two instruments
InitUnhedged ==
    \E ts \in {<<1>>, <<1, 2>>} : \E n \in {1, 2} :
        Constructed([DefaultArgs EXCEPT !.trading_symbols = ts, !.symbol_max_orders = n],
                    NewSimulator(FALSE, [s \in Symbols |-> DefaultSymbolInfo],
                                 OriginalBalance))

NextUnhedged ==
    \/ \E seed \in ResetSeeds : Reset(seed)
    \/ \E action \in ActionSpace(cfg) : Step(action)

SpecUnhedged == InitUnhedged /\ [][NextUnhedged]_vars

\* C19: without hedging symbol_max_orders is 1 whatever was passed, every
\* instrument has at most one open order after every step, no capacity error
\* is recorded, and create_order is requested exactly when hold is false,
\* also for an instrument that keeps an open order.
C19_UnhedgedSingleOrder ==
    [][(~simulator.hedge /\ pc' = "ok" /\ ret'.call = "step") =>
        /\ cfg.symbol_max_orders = 1
        /\ \A s \in TradingSymbols(cfg) :
            /\ Len(SymbolOrders(simulator', s)) <= 1
            /\ ret'.orders_info[s].error # "cannot add more orders"
            /\ ret'.request[s] # "none" <=> ~ret'.orders_info[s].hold
            /\ ret'.orders_info[s].capacity
                = 1 - (Len(SymbolOrders(simulator, s)) - Len(ret'.closed_orders_info[s]))]_vars

\* instrument 1 kept its open order (the recorded capacity is zero), its
\* request was made and accepted all the same, and it has one open order
C19_Witness ==
    /\ Completed /\ ret.call = "step"
    /\ ~simulator.hedge
    /\ original_simulator.hedge = FALSE
    /\ ret.orders_info[1].capacity = 0
    /\ ~ret.orders_info[1].hold
    /\ ret.request[1] = "accepted"
    /\ Len(SymbolOrders(simulator, 1)) = 1

-----------------------------------------------------------------------------
(* Closes before the open decision *)

\* C20: in a step, for every instrument, the recorded capacity is
\* symbol_max_orders - (orders open at the start of the turn - orders closed
\* in the step); only orders open at the start are closed; an instrument
\* that starts with all slots occupied and has an order closed gets no
\* capacity error and, if hold is false, its order is requested in the same
\* step; an order opened in the step is still open after it.
C20_ClosesBeforeOpen ==
    [][(simulator.hedge /\ pc' = "ok" /\ ret'.call = "step") =>
        \A s \in TradingSymbols(cfg) :
            /\ ret'.orders_info[s].capacity
                = cfg.symbol_max_orders
                    - (Len(SymbolOrders(simulator, s)) - Len(ret'.closed_orders_info[s]))
            /\ Ids(ret'.closed_orders_info[s]) \subseteq Ids(SymbolOrders(simulator, s))
            /\ Ids(ret'.closed_orders_info[s]) \cap Ids(SymbolOrders(simulator', s)) = {}
            /\ (/\ Len(SymbolOrders(simulator, s)) = cfg.symbol_max_orders
                /\ Len(ret'.closed_orders_info[s]) >= 1) =>
                    /\ ret'.orders_info[s].error # "cannot add more orders"
                    /\ ~ret'.orders_info[s].hold => ret'.request[s] # "none"
            /\ ret'.request[s] = "accepted" =>
                /\ ret'.orders_info[s].order_id \notin Ids(SymbolOrders(simulator, s))
                /\ ret'.orders_info[s].order_id \in Ids(SymbolOrders(simulator', s))]_vars

\* with two slots, instrument 1 started the step with both occupied, one
\* order was closed and the new order was accepted in the same step
C20_Witness ==
    /\ Completed /\ ret.call = "step"
    /\ simulator.hedge
    /\ cfg.symbol_max_orders = 2
    /\ Len(ret.closed_orders_info[1]) = 1
    /\ ret.orders_info[1].capacity = 1
    /\ ret.request[1] = "accepted"
    /\ Len(SymbolOrders(simulator, 1)) = 2

-----------------------------------------------------------------------------
(* Order requests *)

\* two instruments with one slot each, on a hedging and on a netting account
InitIntent ==
    \E hedge \in BOOLEAN :
        Constructed(DefaultArgs,
                    NewSimulator(hedge, [s \in Symbols |-> DefaultSymbolInfo],
                                 OriginalBalance))

NextIntent ==
    \/ \E seed \in ResetSeeds : Reset(seed)
    \/ \E action \in ActionSpace(cfg) : Step(action)

SpecIntent == InitIntent /\ [][NextIntent]_vars

\* C21: in every step and for every instrument create_order is requested if
\* and only if hold is false and not (hedge and capacity = 0); at most one
\* order per instrument comes of a step; the direction is Buy exactly when the
\* unadjusted volume is > 0, Sell otherwise, zero included; and order_id is
\* set exactly when the simulator accepted the request.
C21_RequestIffNotHeldAndFree ==
    [][(pc' = "ok" /\ ret'.call = "step") =>
        \A s \in TradingSymbols(cfg) :
            /\ ret'.request[s] # "none"
                <=> /\ ~ret'.orders_info[s].hold
                    /\ ~(simulator.hedge /\ ret'.orders_info[s].capacity = 0)
            /\ Cardinality(Ids(SymbolOrders(simulator', s))
                            \ Ids(SymbolOrders(simulator, s))) <= 1
            /\ ret'.request[s] # "accepted" =>
                Ids(SymbolOrders(simulator', s)) \subseteq Ids(SymbolOrders(simulator, s))
            /\ ret'.request[s] = "accepted" =>
                ret'.orders_info[s].order_type
                    = IF ret'.orders_info[s].volume > 0 THEN "Buy" ELSE "Sell"
            /\ ret'.orders_info[s].order_id # 0 <=> ret'.request[s] = "accepted"]_vars

\* in one step a request with volume zero was accepted as a Sell for
\* instrument 1 while instrument 2 was held and no request was made for it
C21_Witness ==
    /\ Completed /\ ret.call = "step"
    /\ ret.orders_info[1].volume = 0
    /\ ~ret.orders_info[1].hold
    /\ ret.request[1] = "accepted"
    /\ ret.orders_info[1].order_type = "Sell"
    /\ ret.orders_info[1].order_id # 0
    /\ ret.orders_info[2].hold
    /\ ret.request[2] = "none"
    /\ ret.orders_info[2].order_id = 0

-----------------------------------------------------------------------------
(* End of the episode *)

\* C22: in every configuration and for every outcome of reset's draws
\* end_tick is strictly greater than start_tick, the truncated flag is
\* reported after exactly end_tick - start_tick steps, and no step reads a
\* time point beyond the end of the time axis.
C22_EpisodesTruncate ==
    /\ Completed =>
        /\ start_tick < end_tick
        /\ current_tick <= end_tick
        /\ truncated <=> (current_tick - start_tick = end_tick - start_tick)
    /\ pc # "raised"

-----------------------------------------------------------------------------
(* Sampling ranges of reset *)

\* time-windowing on a window that fits the time axis or fills it, with
\* min_time_split_length from 0 to 3 and max_time_limit from 1 to 3
SplitCalledArgs ==
    {[DefaultArgs EXCEPT !.trading_symbols = <<1>>,
                         !.window_size = w,
                         !.time_split = TRUE,
                         !.min_time_split_length = mn,
                         !.max_time_split_length = mx] :
        w \in {2, NumTimePoints}, mn \in 0..3, mx \in 1..3}

InitSplit ==
    \E args \in SplitCalledArgs : Called(args, DefaultSimulator)

NextSplit ==
    \/ ConstructReturns
    \/ ConstructRaises
    \/ \E seed \in ResetSeeds : Reset(seed)
    \/ \E seed \in ResetSeeds : ResetRaise(seed)
    \/ \E action \in ActionSpace(cfg) : Step(action)
    \/ \E action \in ActionSpace(cfg) : StepRaise(action)

SpecSplit == InitSplit /\ [][NextSplit]_vars

\* C23: on a constructed environment with time-windowing a call of reset
\* returns, and the sampling range of start_tick and, for every start_tick in
\* it, the sampling range of end_tick are non-empty.
C23_ResetNeverFails ==
    (pc \in {"ok", "raised"} /\ ret.call = "reset" /\ cfg.time_split) =>
        /\ pc = "ok"
        /\ StartRange(cfg).low < StartRange(cfg).high
        /\ \A start \in StartRange(cfg).low .. StartRange(cfg).high - 1 :
               EndRange(cfg, start).low < EndRange(cfg, start).high

====
